---- MODULE Spec2Model ----
(***************************************************************************)
(* Vocabulary flashcard application (Xianghbb/vocab-app).                  *)
(*                                                                         *)
(* The model covers the Progress Store and Vocabulary Store (the SQL       *)
(* migration), the Progress Recorder (lib/data/progress-update), the Word  *)
(* Selector (lib/data/word-fetch), the Statistics Aggregator               *)
(* (lib/data/stats-query) and the two review controllers                   *)
(* (FlashcardComponent, UserWordLearning).                                 *)
(*                                                                         *)
(* Every store request is one atomic step of the store; the client code    *)
(* around it (the part of an async function between two awaits) is one     *)
(* step of the session that runs it.  The store identity of a session      *)
(* (auth.uid() of the row-level-security policies) is the session's        *)
(* signed-in user.                                                         *)
(***************************************************************************)
EXTENDS Integers, Sequences, FiniteSets, TLC

VARIABLES
    dictionary,   \* ids of the rows of table dictionary (immutable)
    store,        \* rows of table user_progress
    now,          \* the clock (new Date() of the clients, NOW() of the store)
    user,         \* session -> signed-in user id, NoId for a guest
    calls,        \* session -> its updateWordStatus invocation
    lastApplied,  \* the upsert the store applied last (history)
    sel,          \* session -> its fetchPrioritizedWord / fetchRandomWord invocation
    stats,        \* session -> its fetchUserStats / fetchUserStatsBasic invocation
    ctl,          \* session -> the state of its review controller component
    loads,        \* session -> the word loads of its controller that are in flight
    dash          \* session -> the state of its StatsDashboard component

vars == <<dictionary, store, now, user, calls, lastApplied, sel, stats, ctl, loads, dash>>

-----------------------------------------------------------------------------
(* Bounds and value sets *)

MaxTime == 1

Sessions == {"s1", "s2"}
Users == {"u1", "u2"}
NoId == ""
AllWords == {"w1", "w2", "w3"}
StatusInputs == {"known", "unknown", "new", "bogus"}
None == [none |-> TRUE]
Times == 0..MaxTime

-----------------------------------------------------------------------------
(* Table user_progress and its constraints *)

\* status TEXT NOT NULL CHECK (status IN ('new', 'known', 'unknown'))
StatusCheckOff(st) == TRUE
StatusCheck(st) == st \in {"new", "known", "unknown"}

\* FOREIGN KEY (word_id) REFERENCES dictionary(id)
ForeignKeyOk(wordId, D) == wordId \in D

\* INSERT / UPDATE policies: auth.uid()::text = user_id
RlsAllowsAnyone(identity, userId) == identity # NoId
RlsAllows(identity, userId) == identity # NoId /\ identity = userId

\* SELECT policy: a session sees the rows it owns
Visible(S, identity) == {r \in S : RlsAllows(identity, r.user_id)}

RowsOf(S, userId, wordId) == {r \in S : r.user_id = userId /\ r.word_id = wordId}

StoreAccepts(identity, p, D) ==
    /\ RlsAllows(identity, p.user_id)
    /\ StatusCheck(p.status)
    /\ ForeignKeyOk(p.word_id, D)

\* .upsert(payload, { onConflict: 'user_id,word_id' }) against PRIMARY KEY
\* (user_id, word_id): insert, or on conflict set the payload's columns.
\* created_at is not in the payload: DEFAULT NOW() on insert, kept on update.
UpsertInsertOnly(S, p, t) ==
    S \cup {[user_id |-> p.user_id, word_id |-> p.word_id, status |-> p.status,
             last_reviewed_at |-> p.last_reviewed_at, created_at |-> t]}
UpsertIgnoreDuplicates(S, p, t) ==
    IF RowsOf(S, p.user_id, p.word_id) = {}
    THEN S \cup {[user_id |-> p.user_id, word_id |-> p.word_id, status |-> p.status,
                  last_reviewed_at |-> p.last_reviewed_at, created_at |-> t]}
    ELSE S
UpsertKeepReviewTime(S, p, t) ==
    IF RowsOf(S, p.user_id, p.word_id) = {}
    THEN S \cup {[user_id |-> p.user_id, word_id |-> p.word_id, status |-> p.status,
                  last_reviewed_at |-> p.last_reviewed_at, created_at |-> t]}
    ELSE {IF r.user_id = p.user_id /\ r.word_id = p.word_id
          THEN [r EXCEPT !.status = p.status]
          ELSE r : r \in S}
UpsertResetCreated(S, p, t) ==
    (S \ RowsOf(S, p.user_id, p.word_id))
    \cup {[user_id |-> p.user_id, word_id |-> p.word_id, status |-> p.status,
             last_reviewed_at |-> p.last_reviewed_at, created_at |-> t]}
Upsert(S, p, t) ==
    IF RowsOf(S, p.user_id, p.word_id) = {}
    THEN S \cup {[user_id |-> p.user_id, word_id |-> p.word_id, status |-> p.status,
                  last_reviewed_at |-> p.last_reviewed_at, created_at |-> t]}
    ELSE {IF r.user_id = p.user_id /\ r.word_id = p.word_id
          THEN [r EXCEPT !.status = p.status,
                         !.last_reviewed_at = p.last_reviewed_at]
          ELSE r : r \in S}

-----------------------------------------------------------------------------
(* Progress Recorder: updateWordStatus *)

\* !userId, !wordId, user?.id: a missing or empty id is falsy
HasIdAlways(id) == TRUE
HasId(id) == id # NoId

\* ['known', 'unknown'].includes(status)
ValidDecisionAny(st) == TRUE
ValidDecision(st) == st \in {"known", "unknown"}

IdleCall ==
    [pc |-> "idle", userId |-> NoId, wordId |-> NoId, status |-> "known",
     ts |-> 0, ok |-> FALSE, err |-> "", again |-> FALSE]

\* The payload of the upsert request
Payload(c) ==
    [user_id |-> c.userId, word_id |-> c.wordId, status |-> c.status,
     last_reviewed_at |-> c.ts]

\* The call record after the synchronous part of updateWordStatus: a failure
\* result without a request when validation fails, else the request in flight
\* with last_reviewed_at = new Date().toISOString().
\* again: the call repeats the session's previous call, a successful 'known'.
StartCall(old, userId, wordId, st, t) ==
    LET again == /\ old.pc = "done" /\ old.ok /\ st = "known"
                 /\ old.userId = userId /\ old.wordId = wordId /\ old.status = st
        base == [pc |-> "done", userId |-> userId, wordId |-> wordId, status |-> st,
                 ts |-> 0, ok |-> FALSE, err |-> "", again |-> again]
    IN  IF ~(HasId(userId) /\ HasId(wordId))
        THEN [base EXCEPT !.err = "User ID and Word ID are required"]
        ELSE IF ~ValidDecision(st)
        THEN [base EXCEPT !.err = "Status must be either known or unknown"]
        ELSE [base EXCEPT !.pc = "sent", !.ts = t]

UpdateWordStatus(s, userId, wordId, st) ==
    /\ calls[s].pc # "sent"
    /\ calls' = [calls EXCEPT ![s] = StartCall(calls[s], userId, wordId, st, now)]
    /\ UNCHANGED <<dictionary, store, now, user, lastApplied, sel, stats, ctl, loads, dash>>

MarkWordAsKnown(s, userId, wordId) == UpdateWordStatus(s, userId, wordId, "known")

MarkWordAsUnknown(s, userId, wordId) == UpdateWordStatus(s, userId, wordId, "unknown")

\* The store serves the upsert request of session s.  The row is written and
\* returned; or written with the response lost on the way back; or the
\* request is refused by a constraint or never reaches the store.
StoreServeUpsert(s) ==
    /\ calls[s].pc = "sent"
    /\ \/ /\ StoreAccepts(user[s], Payload(calls[s]), dictionary)
          /\ store' = Upsert(store, Payload(calls[s]), now)
          /\ lastApplied' = [user_id |-> calls[s].userId, word_id |-> calls[s].wordId,
                             status |-> calls[s].status, ts |-> calls[s].ts]
          /\ \E delivered \in BOOLEAN :
                calls' = [calls EXCEPT ![s].pc = "done", ![s].ok = delivered,
                             ![s].err = IF delivered THEN ""
                                        ELSE "Failed to update word status"]
       \/ /\ calls' = [calls EXCEPT ![s].pc = "done", ![s].ok = FALSE,
                             ![s].err = "Failed to update word status"]
          /\ UNCHANGED <<store, lastApplied>>
    /\ UNCHANGED <<dictionary, now, user, sel, stats, ctl, loads, dash>>

\* GRANT INSERT, UPDATE ON user_progress TO authenticated: a signed-in browser
\* client may send any upsert to the store; the constraints decide.
ClientUpsert(s, userId, wordId, st) ==
    /\ StoreAccepts(user[s], [user_id |-> userId, word_id |-> wordId, status |-> st],
                    dictionary)
    /\ store' = Upsert(store, [user_id |-> userId, word_id |-> wordId, status |-> st,
                               last_reviewed_at |-> now], now)
    /\ lastApplied' = [user_id |-> userId, word_id |-> wordId, status |-> st,
                       ts |-> now]
    /\ UNCHANGED <<dictionary, now, user, calls, sel, stats, ctl, loads, dash>>

Tick ==
    /\ now < MaxTime
    /\ now' = now + 1
    /\ UNCHANGED <<dictionary, store, user, calls, lastApplied, sel, stats, ctl, loads, dash>>

-----------------------------------------------------------------------------
(* Word Selector: fetchRandomWord and fetchPrioritizedWord.  An invocation   *)
(* is a record; pc names the store request it awaits.  Each operator below   *)
(* gives the records the invocation may continue with when that request is   *)
(* answered: the request may fail, and Math.random() may pick any index.     *)

PriorityLimit == 50

\* The status the application attributes to word w for user u: no row = new
StatusOf(S, u, w) ==
    IF RowsOf(S, u, w) = {} THEN "new" ELSE (CHOOSE r \in RowsOf(S, u, w) : TRUE).status

\* The last-reviewed timestamp of entry w for user u; an entry without a
\* record counts as never reviewed (-1: the epoch, before every instant)
ReviewKey(S, u, w) ==
    IF RowsOf(S, u, w) = {} THEN -1
    ELSE (CHOOSE r \in RowsOf(S, u, w) : TRUE).last_reviewed_at

\* The entries of D that are not 'known' for user u
TierOne(S, u, D) == {w \in D : StatusOf(S, u, w) # "known"}

IdleSel ==
    [pc |-> "idle", kind |-> "random", userId |-> NoId, known |-> {}, offset |-> 0,
     word |-> NoId, ok |-> FALSE, err |-> "", failed |-> FALSE,
     wstatus |-> "new", mixed |-> FALSE, allKnown |-> FALSE,
     hasTierOne |-> FALSE, leastTierOne |-> FALSE, oldestKnown |-> FALSE]

\* The result record { data, error, success } of an invocation.  With it are
\* kept, for the properties, facts of the store at the moment of the return:
\* the status of the returned word, whether the user has both a known entry
\* and an unknown or unrecorded one, whether every entry is known.
Finish(p, ok, word, err, S, D) ==
    [p EXCEPT !.pc = "done", !.ok = ok, !.word = word, !.err = err,
              !.wstatus = IF ok THEN StatusOf(S, p.userId, word) ELSE "new",
              !.mixed = /\ \E w \in D : StatusOf(S, p.userId, w) = "known"
                        /\ \E w \in D : StatusOf(S, p.userId, w) # "known",
              !.allKnown = \A w \in D : StatusOf(S, p.userId, w) = "known",
              !.hasTierOne = TierOne(S, p.userId, D) # {},
              !.leastTierOne = /\ ok /\ word \in TierOne(S, p.userId, D)
                               /\ \A w \in TierOne(S, p.userId, D) :
                                     ReviewKey(S, p.userId, word) <= ReviewKey(S, p.userId, w),
              !.oldestKnown = /\ ok /\ word \in D
                              /\ \A w \in D :
                                    ReviewKey(S, p.userId, word) <= ReviewKey(S, p.userId, w)]

\* fetchRandomWord, first request: select count from dictionary
StartRandom(p) == [p EXCEPT !.pc = "count"]

AfterCountMalformed(p, S, D) ==
    IF Cardinality(D) = 0
    THEN {Finish(p, TRUE, NoId, "", S, D)}
    ELSE {[p EXCEPT !.pc = "row", !.offset = o] : o \in 0..(Cardinality(D) - 1)}

\* count answered: countError; !count; else the offset drawn and row requested
AfterCount(p, S, D) ==
    {Finish([p EXCEPT !.failed = TRUE], FALSE, NoId, "Failed to count dictionary words", S, D)}
    \cup
    (IF Cardinality(D) = 0
     THEN {Finish(p, FALSE, NoId, "No words found in dictionary", S, D)}
     ELSE {[p EXCEPT !.pc = "row", !.offset = o] : o \in 0..(Cardinality(D) - 1)})

\* .range(offset, offset).single() answered: the table has no stated order, so
\* the row at an offset below the count is any row
AfterRow(p, S, D) ==
    {Finish([p EXCEPT !.failed = TRUE], FALSE, NoId, "Failed to fetch random word", S, D)}
    \cup
    (IF p.offset < Cardinality(D)
     THEN {Finish(p, TRUE, w, "", S, D) : w \in D}
     ELSE {Finish(p, FALSE, NoId, "Failed to fetch random word", S, D)})

\* Step 1 rows: the user's rows with status unknown or new, joined with the
\* dictionary, the first PriorityLimit by last_reviewed_at
PriorityRows(S, identity, userId, D) ==
    LET rows == {r \in Visible(S, identity) :
                    r.user_id = userId /\ r.status \in {"unknown", "new"} /\ r.word_id \in D}
    IN  {r \in rows :
            Cardinality({q \in rows : q.last_reviewed_at < r.last_reviewed_at}) < PriorityLimit}

\* Step 1 answered: priorityError falls back to fetchRandomWord; a non-empty
\* list returns the row at a random index; an empty one goes on to step 2
AfterPriority(p, S, D, identity) ==
    {StartRandom([p EXCEPT !.failed = TRUE])}
    \cup
    (IF PriorityRows(S, identity, p.userId, D) # {}
     THEN {Finish(p, TRUE, r.word_id, "", S, D) : r \in PriorityRows(S, identity, p.userId, D)}
     ELSE {[p EXCEPT !.pc = "known"]})

\* Step 2 answered: knownError falls back to fetchRandomWord; with known ids
\* the dictionary is asked for a row outside them; with none, step 3
AfterKnown(p, S, identity) ==
    LET ids == {r.word_id : r \in {q \in Visible(S, identity) :
                                      q.user_id = p.userId /\ q.status = "known"}}
    IN  {StartRandom([p EXCEPT !.failed = TRUE])}
        \cup
        (IF ids # {} THEN {[p EXCEPT !.pc = "new", !.known = ids]}
                     ELSE {StartRandom(p)})

\* .not('id', 'in', known).limit(1).single() answered: an error, or no row
\* (single() reports it as an error), falls back to fetchRandomWord
AfterNewNoWords(p, S, D) ==
    {StartRandom([p EXCEPT !.failed = TRUE])}
    \cup
    (IF D \ p.known = {}
     THEN {Finish(p, FALSE, NoId, "No words found in dictionary", S, D)}
     ELSE {Finish(p, TRUE, w, "", S, D) : w \in D \ p.known})
AfterNew(p, S, D) ==
    {StartRandom([p EXCEPT !.failed = TRUE])}
    \cup
    (IF D \ p.known = {}
     THEN {StartRandom(p)}
     ELSE {Finish(p, TRUE, w, "", S, D) : w \in D \ p.known})

\* The continuations of invocation p when its pending request is answered
SelectorStep(p, S, D, identity) ==
    CASE p.pc = "priority" -> AfterPriority(p, S, D, identity)
      [] p.pc = "known"    -> AfterKnown(p, S, identity)
      [] p.pc = "new"      -> AfterNew(p, S, D)
      [] p.pc = "count"    -> AfterCount(p, S, D)
      [] p.pc = "row"      -> AfterRow(p, S, D)
      [] OTHER             -> {}

FetchRandomWord(s) ==
    /\ sel[s].pc \in {"idle", "done"}
    /\ sel' = [sel EXCEPT ![s] = StartRandom([IdleSel EXCEPT !.kind = "random",
                                                            !.userId = user[s]])]
    /\ UNCHANGED <<dictionary, store, now, user, calls, lastApplied, stats, ctl, loads, dash>>

\* The step 1 request of fetchPrioritizedWord(userId)
StartPrioritized(userId) ==
    [IdleSel EXCEPT !.pc = "priority", !.kind = "prioritized", !.userId = userId]

FetchPrioritizedWord(s, userId) ==
    /\ sel[s].pc \in {"idle", "done"}
    /\ sel' = [sel EXCEPT ![s] = StartPrioritized(userId)]
    /\ UNCHANGED <<dictionary, store, now, user, calls, lastApplied, stats, ctl, loads, dash>>

\* The store answers the pending request of the invocation of session s
StoreServeSelect(s) ==
    /\ \E q \in SelectorStep(sel[s], store, dictionary, user[s]) :
          sel' = [sel EXCEPT ![s] = q]
    /\ UNCHANGED <<dictionary, store, now, user, calls, lastApplied, stats, ctl, loads, dash>>

\* The state of a component before it is mounted (its useState defaults)
IdleCtl ==
    [comp |-> "FlashcardComponent", autoAdvance |-> TRUE, mounted |-> FALSE,
     initialWord |-> NoId, currentWord |-> NoId, isFlipped |-> FALSE, isLoading |-> FALSE,
     updating |-> FALSE, error |-> "", currentProgress |-> "new",
     timers |-> 0, awaiting |-> FALSE]

\* A statistics invocation that has not started (lastStudyDate -1: null)
IdleStats ==
    [pc |-> "idle", kind |-> "rpc", userId |-> NoId, result |-> "none",
     total |-> 0, today |-> 0, thisWeek |-> 0, remaining |-> 0,
     dayStart |-> 0, dayEnd |-> 0, weekAgo |-> 0, dict |-> 0,
     failed |-> FALSE, expected |-> 0, totalAt |-> 0, weekExact |-> 0, weekAt |-> 0,
     snap |-> {}, quiet |-> TRUE,
     breakdown |-> [new |-> 0, known |-> 0, unknown |-> 0],
     currentStreak |-> 0, longestStreak |-> 0, lastStudyDate |-> -1,
     thirtyDaysAgo |-> 0, studyDates |-> {}, todayAt |-> 0]

\* The state of StatsDashboard before it is mounted (its useState defaults);
\* parts are the three invocations its loadStats awaits
IdleDash ==
    [mounted |-> FALSE, loading |-> TRUE, error |-> "", pending |-> FALSE,
     stats |-> None, breakdown |-> None, streak |-> None,
     parts |-> [k \in {"stats", "breakdown", "streak"} |-> IdleStats]]

-----------------------------------------------------------------------------
(* Specification of the selector: session s1 (user u1) selects words while   *)
(* session s2 of the same user writes progress rows.  The selector uses      *)
(* last_reviewed_at only to cut the step 1 list at PriorityLimit rows, so    *)
(* the clock stands still here.                                              *)

InitSelect ==
    /\ dictionary \in {{}, AllWords}
    /\ store = {}
    /\ now = 0
    /\ user = [s \in Sessions |-> "u1"]
    /\ calls = [s \in Sessions |-> IdleCall]
    /\ lastApplied = None
    /\ sel = [s \in Sessions |-> IdleSel]
    /\ stats = [s \in Sessions |-> IdleStats]
    /\ ctl = [s \in Sessions |-> IdleCtl]
    /\ loads = [s \in Sessions |-> <<>>]
    /\ dash = [s \in Sessions |-> IdleDash]

NextSelect ==
    \/ FetchRandomWord("s1")
    \/ FetchPrioritizedWord("s1", user["s1"])
    \/ StoreServeSelect("s1")
    \/ \E w \in AllWords, st \in {"known", "unknown", "new"} :
          ClientUpsert("s2", user["s2"], w, st)

SpecSelect == InitSelect /\ [][NextSelect]_vars

\* C3: with at least one unknown or unrecorded entry and at least one known
\* entry for U, fetchPrioritizedWord(U) never returns an entry whose status
\* for U is known, whatever the outcome of its store reads.
PrioritizedNeverReturnsKnown ==
    \A s \in Sessions :
        (sel[s].pc = "done" /\ sel[s].kind = "prioritized" /\ sel[s].ok /\ sel[s].mixed)
        => sel[s].wstatus # "known"

\* C4: for an authenticated user and a non-empty dictionary,
\* fetchPrioritizedWord never returns the no-words failure; when every entry
\* is known and its reads are answered it returns an entry, a known one.
PrioritizedNeverHalts ==
    \A s \in Sessions :
        (sel[s].pc = "done" /\ sel[s].kind = "prioritized" /\ dictionary # {})
        => /\ sel[s].err # "No words found in dictionary"
           /\ (sel[s].allKnown /\ ~sel[s].failed)
              => (sel[s].ok /\ sel[s].word \in dictionary /\ sel[s].wstatus = "known")

\* fetchPrioritizedWord has returned while every entry was known
ReturnedWhileAllKnown ==
    /\ sel["s1"].pc = "done" /\ sel["s1"].kind = "prioritized"
    /\ dictionary # {} /\ sel["s1"].allKnown /\ ~sel["s1"].failed /\ sel["s1"].ok

\* C14: fetchRandomWord on an empty dictionary returns the failure result
\* (success false, data null, the no-words error), never a success without
\* word data; on a non-empty dictionary, its requests answered, it returns
\* success with an entry of the dictionary.
RandomWordResultWellFormed ==
    \A s \in Sessions :
        (sel[s].pc = "done" /\ sel[s].kind = "random")
        => /\ sel[s].ok <=> sel[s].word # NoId
           /\ sel[s].ok <=> sel[s].err = ""
           /\ sel[s].ok => sel[s].word \in dictionary
           /\ (dictionary = {} /\ ~sel[s].failed)
              => sel[s].err = "No words found in dictionary"
           /\ (dictionary # {} /\ ~sel[s].failed) => sel[s].ok

\* fetchRandomWord has returned on an empty dictionary
RandomReturnedOnEmpty ==
    /\ dictionary = {}
    /\ sel["s1"].pc = "done" /\ sel["s1"].kind = "random" /\ ~sel["s1"].failed


-----------------------------------------------------------------------------
(* Statistics Aggregator: fetchUserStats and fetchUserStatsBasic.  As for    *)
(* the selector, an invocation is a record whose pc names the request it     *)
(* awaits.                                                                   *)

TicksPerDay == 2

\* new Date(y, m, d): the start of the day of instant t
StartOfDay(t) == (t \div TicksPerDay) * TicksPerDay

\* The user's rows a session may see
RowsOfUser(S, identity, userId) == {r \in Visible(S, identity) : r.user_id = userId}

\* The answer to .select('word_id', { count: 'exact', head: true }): a HEAD
\* request carries the count beside a null data
HeadResponse(n) == [data |-> None, count |-> n]

\* totalData?.count || 0, with totalData the data of the response
DataCountOrZero(resp) == IF resp.data = None THEN 0 ELSE resp.data.count

\* The rpc get_remaining_words_count(p_user_id): the entries of the
\* vocabulary that the user has not marked known
GetRemainingWordsCount(S, D, identity, userId) ==
    Cardinality(D) - Cardinality({r \in RowsOfUser(S, identity, userId) : r.status = "known"})

\* Math.max(0, totalWords - knownWords)
BasicRemainingSwapped(totalWords, knownWords) ==
    IF knownWords - totalWords > 0 THEN knownWords - totalWords ELSE 0
BasicRemainingCountsKnown(totalWords, knownWords) == knownWords
BasicRemaining(totalWords, knownWords) ==
    IF totalWords - knownWords > 0 THEN totalWords - knownWords ELSE 0

\* return null
StatsNull(p) == [p EXCEPT !.pc = "done", !.result = "null", !.failed = TRUE]

\* return { total, today, thisWeek, remaining }; kept with it, for the
\* properties: the vocabulary size minus the user's known rows at the return.
\* The steps below keep likewise totalAt, the number of the user's rows when
\* the total request is answered, weekExact, the instant 7 days before the
\* week request is made, and weekAt, the number of the user's rows reviewed
\* at or after weekExact when that request is answered.
StatsValue(p, remaining, S, D) ==
    [p EXCEPT !.pc = "done", !.result = "value", !.remaining = remaining,
              !.expected = Cardinality(D)
                           - Cardinality({r \in S : r.user_id = p.userId /\ r.status = "known"})]

\* fetchUserStats: an error of any request is thrown and null is returned
RpcStatsStep(p, S, D, identity, t) ==
    LET rows == RowsOfUser(S, identity, p.userId) IN
    {StatsNull(p)}
    \cup
    (CASE p.pc = "total" ->
            {[p EXCEPT !.pc = "today",
                       !.total = DataCountOrZero(HeadResponse(Cardinality(rows))),
                       !.totalAt = Cardinality({r \in S : r.user_id = p.userId}),
                       !.dayStart = StartOfDay(t),
                       !.dayEnd = StartOfDay(t) + TicksPerDay]}
       [] p.pc = "today" ->
            {[p EXCEPT !.pc = "week",
                       !.today = DataCountOrZero(HeadResponse(Cardinality(
                           {r \in rows : /\ r.last_reviewed_at >= p.dayStart
                                         /\ r.last_reviewed_at < p.dayEnd}))),
                       !.weekAgo = StartOfDay(t - 7 * TicksPerDay),
                       !.weekExact = t - 7 * TicksPerDay]}
       [] p.pc = "week" ->
            {[p EXCEPT !.pc = "rpc",
                       !.thisWeek = DataCountOrZero(HeadResponse(Cardinality(
                           {r \in rows : r.last_reviewed_at >= p.weekAgo}))),
                       !.weekAt = Cardinality({r \in S : /\ r.user_id = p.userId
                                                         /\ r.last_reviewed_at >= p.weekExact})]}
       [] p.pc = "rpc" ->
            {StatsValue(p, GetRemainingWordsCount(S, D, identity, p.userId), S, D)}
       [] OTHER -> {})

\* fetchUserStatsBasic: the error of a response is not read; a failed request
\* leaves its count null, which counts as 0
BasicStatsStep(p, S, D, identity, t) ==
    LET rows == RowsOfUser(S, identity, p.userId)
        known == Cardinality({r \in rows : r.status = "known"})
        same == p.quiet /\ {r \in S : r.user_id = p.userId} = p.snap
    IN
    CASE p.pc = "total" ->
            {[p EXCEPT !.pc = "today", !.total = n, !.failed = (p.failed \/ f),
                       !.snap = {r \in S : r.user_id = p.userId}, !.quiet = TRUE,
                       !.totalAt = Cardinality({r \in S : r.user_id = p.userId}),
                       !.dayStart = StartOfDay(t),
                       !.dayEnd = StartOfDay(t) + TicksPerDay] :
                <<n, f>> \in {<<Cardinality(rows), FALSE>>, <<0, TRUE>>}}
      [] p.pc = "today" ->
            {[p EXCEPT !.pc = "week", !.today = n, !.failed = (p.failed \/ f),
                       !.quiet = same,
                       !.weekAgo = t - 7 * TicksPerDay,
                       !.weekExact = t - 7 * TicksPerDay] :
                <<n, f>> \in {<<Cardinality({r \in rows :
                                      /\ r.last_reviewed_at >= p.dayStart
                                      /\ r.last_reviewed_at < p.dayEnd}), FALSE>>,
                              <<0, TRUE>>}}
      [] p.pc = "week" ->
            {[p EXCEPT !.pc = "dict", !.thisWeek = n, !.failed = (p.failed \/ f),
                       !.quiet = same,
                       !.weekAt = Cardinality({r \in S : /\ r.user_id = p.userId
                                                         /\ r.last_reviewed_at >= p.weekExact})] :
                <<n, f>> \in {<<Cardinality({r \in rows :
                                      r.last_reviewed_at >= p.weekAgo}), FALSE>>,
                              <<0, TRUE>>}}
      [] p.pc = "dict" ->
            {[p EXCEPT !.pc = "known", !.dict = n, !.failed = (p.failed \/ f)] :
                <<n, f>> \in {<<Cardinality(D), FALSE>>, <<0, TRUE>>}}
      [] p.pc = "known" ->
            {StatsValue([p EXCEPT !.failed = (p.failed \/ f), !.quiet = same],
                        BasicRemaining(p.dict, n), S, D) :
                <<n, f>> \in {<<known, FALSE>>, <<0, TRUE>>}}
      [] OTHER -> {}

\* fetchProgressBreakdown: the statuses of the user's rows, counted by status
BreakdownStep(p, S, identity) ==
    LET rows == RowsOfUser(S, identity, p.userId) IN
    {StatsNull(p),
     [p EXCEPT !.pc = "done", !.result = "value",
               !.totalAt = Cardinality({r \in S : r.user_id = p.userId}),
               !.breakdown = [st \in {"new", "known", "unknown"} |->
                                 Cardinality({r \in rows : r.status = st})]]}

StreakWindowDays == 30

\* new Date(ts).toISOString().split('T')[0]: the calendar date of an instant
DateOf(t) == t \div TicksPerDay

Max(a, b) == IF a >= b THEN a ELSE b

\* Array.from(studyDates).sort().reverse()
RECURSIVE SortDescending(_)
SortDescending(dates) ==
    IF dates = {} THEN <<>>
    ELSE LET m == CHOOSE x \in dates : \A y \in dates : y <= x
         IN  <<m>> \o SortDescending(dates \ {m})

\* The for loop of fetchLearningStreak from index i (0-based), acc holding
\* currentStreak, longestStreak and tempStreak; a date that is not today - i
\* ends the loop
RECURSIVE StreakLoop(_, _, _, _)
StreakLoop(sortedDates, i, today, acc) ==
    IF i >= Len(sortedDates) THEN acc
    ELSE IF sortedDates[i + 1] = today - i
         THEN StreakLoop(sortedDates, i + 1, today,
                         [acc EXCEPT !.tempStreak = @ + 1,
                                     !.currentStreak = IF i = 0 THEN acc.tempStreak + 1 ELSE @])
         ELSE [acc EXCEPT !.longestStreak = Max(@, acc.tempStreak), !.tempStreak = 0]

\* fetchLearningStreak after its request is answered at instant t
StreakStep(p, S, identity, t) ==
    LET rows == {r \in RowsOfUser(S, identity, p.userId) :
                    r.last_reviewed_at >= p.thirtyDaysAgo}
        studyDates == {DateOf(r.last_reviewed_at) : r \in rows}
        sortedDates == SortDescending(studyDates)
        acc == StreakLoop(sortedDates, 0, DateOf(t),
                          [currentStreak |-> 0, longestStreak |-> 0, tempStreak |-> 0])
        q == [p EXCEPT !.pc = "done", !.result = "value", !.todayAt = DateOf(t),
                       !.studyDates = {DateOf(r.last_reviewed_at) :
                                          r \in {x \in S : /\ x.user_id = p.userId
                                                         /\ x.last_reviewed_at >= p.thirtyDaysAgo}}]
    IN
    {StatsNull(p),
     IF rows = {}
     THEN q
     ELSE [q EXCEPT !.currentStreak = acc.currentStreak,
                    !.longestStreak = Max(acc.longestStreak, acc.tempStreak),
                    !.lastStudyDate = sortedDates[1]]}

StartBreakdown(userId) ==
    [IdleStats EXCEPT !.pc = "rows", !.kind = "breakdown", !.userId = userId]

StartStreak(userId, t) ==
    [IdleStats EXCEPT !.pc = "rows", !.kind = "streak", !.userId = userId,
                      !.thirtyDaysAgo = t - StreakWindowDays * TicksPerDay]

FetchProgressBreakdown(s, userId) ==
    /\ stats[s].pc \in {"idle", "done"}
    /\ stats' = [stats EXCEPT ![s] = StartBreakdown(userId)]
    /\ UNCHANGED <<dictionary, store, now, user, calls, lastApplied, sel, ctl, loads, dash>>

FetchLearningStreak(s, userId) ==
    /\ stats[s].pc \in {"idle", "done"}
    /\ stats' = [stats EXCEPT ![s] = StartStreak(userId, now)]
    /\ UNCHANGED <<dictionary, store, now, user, calls, lastApplied, sel, ctl, loads, dash>>

\* The records an invocation may continue with when its request is answered
StatsStep(p, S, D, identity, t) ==
    IF p.pc \in {"idle", "done"} THEN {}
    ELSE CASE p.kind = "rpc"       -> RpcStatsStep(p, S, D, identity, t)
           [] p.kind = "basic"     -> BasicStatsStep(p, S, D, identity, t)
           [] p.kind = "breakdown" -> BreakdownStep(p, S, identity)
           [] p.kind = "streak"    -> StreakStep(p, S, identity, t)

\* fetchUserStats to its first await;
\* !userId || typeof userId !== 'string' || userId.trim() === '': return null
StartUserStats(userId) ==
    IF HasId(userId)
    THEN [IdleStats EXCEPT !.pc = "total", !.kind = "rpc", !.userId = userId]
    ELSE StatsNull([IdleStats EXCEPT !.kind = "rpc", !.userId = userId])

FetchUserStats(s, userId) ==
    /\ stats[s].pc \in {"idle", "done"}
    /\ stats' = [stats EXCEPT ![s] = StartUserStats(userId)]
    /\ UNCHANGED <<dictionary, store, now, user, calls, lastApplied, sel, ctl, loads, dash>>

FetchUserStatsBasic(s, userId) ==
    /\ stats[s].pc \in {"idle", "done"}
    /\ stats' = [stats EXCEPT ![s] =
                    [IdleStats EXCEPT !.pc = "total", !.kind = "basic", !.userId = userId]]
    /\ UNCHANGED <<dictionary, store, now, user, calls, lastApplied, sel, ctl, loads, dash>>

\* The store answers the pending request of the invocation of session s
StoreServeStats(s) ==
    /\ \E q \in StatsStep(stats[s], store, dictionary, user[s], now) :
          stats' = [stats EXCEPT ![s] = q]
    /\ UNCHANGED <<dictionary, store, now, user, calls, lastApplied, sel, ctl, loads, dash>>

-----------------------------------------------------------------------------
(* Specification of the aggregator: session s1 (user u1) computes its        *)
(* statistics while session s2 of the same user records decisions.           *)

InitStats ==
    /\ dictionary = AllWords
    /\ store = {}
    /\ now = 0
    /\ user = [s \in Sessions |-> "u1"]
    /\ calls = [s \in Sessions |-> IdleCall]
    /\ lastApplied = None
    /\ sel = [s \in Sessions |-> IdleSel]
    /\ stats = [s \in Sessions |-> IdleStats]
    /\ ctl = [s \in Sessions |-> IdleCtl]
    /\ loads = [s \in Sessions |-> <<>>]
    /\ dash = [s \in Sessions |-> IdleDash]

NextStats ==
    \/ \E u \in {NoId, "u1"} : FetchUserStats("s1", u)
    \/ FetchUserStatsBasic("s1", user["s1"])
    \/ StoreServeStats("s1")
    \/ \E w \in {"w1", "w2"} : MarkWordAsKnown("s2", user["s2"], w)
    \/ \E w \in {"w1", "w2"} : MarkWordAsUnknown("s2", user["s2"], w)
    \/ StoreServeUpsert("s2")

SpecStats == InitStats /\ [][NextStats]_vars

\* C7: in every store state reached by decision writes, the remaining value
\* that fetchUserStats and fetchUserStatsBasic return for U (from answered
\* reads) is the number of vocabulary entries minus the number of U's records
\* with status known.
RemainingIsVocabularyMinusKnown ==
    \A s \in Sessions :
        (stats[s].pc = "done" /\ stats[s].result = "value" /\ ~stats[s].failed)
        => stats[s].remaining = stats[s].expected

\* fetchUserStatsBasic has returned for a user with a known record and an
\* unknown one
BasicStatsReturnedWithKnown ==
    /\ stats["s1"].pc = "done" /\ stats["s1"].kind = "basic"
    /\ stats["s1"].result = "value" /\ ~stats["s1"].failed
    /\ stats["s1"].expected = Cardinality(dictionary) - 1
    /\ \E r \in store : r.status = "unknown"

\* C15: the total returned by fetchUserStats and by fetchUserStatsBasic for U
\* is the number of Progress Records whose user_id is U.
TotalIsRecordCount ==
    \A s \in Sessions :
        (stats[s].pc = "done" /\ stats[s].result = "value" /\ ~stats[s].failed)
        => stats[s].total = stats[s].totalAt

\* C16: the thisWeek returned for U is the number of U's records whose
\* last_reviewed_at is at or after exactly now - 7 days.
ThisWeekIsRollingWindow ==
    \A s \in Sessions :
        (stats[s].pc = "done" /\ stats[s].result = "value" /\ ~stats[s].failed)
        => stats[s].thisWeek = stats[s].weekAt

\* C30: the values returned by one fetchUserStatsBasic call whose reads were
\* answered satisfy today <= total, thisWeek <= total and
\* |Vocabulary| - remaining <= total, also when decision writes of the user
\* from another session fall between its reads.
BasicStatsConsistentUnderWrites ==
    \A s \in Sessions :
        (/\ stats[s].pc = "done" /\ stats[s].kind = "basic"
         /\ stats[s].result = "value" /\ ~stats[s].failed)
        => /\ stats[s].today <= stats[s].total
           /\ stats[s].thisWeek <= stats[s].total
           /\ stats[s].dict - stats[s].remaining <= stats[s].total

\* C30, amended: the values returned by one fetchUserStatsBasic call whose
\* reads were answered, and between whose reads the user's records did not
\* change, satisfy today <= total, thisWeek <= total and
\* |Vocabulary| - remaining <= total.
BasicStatsConsistentWhenStoreQuiet ==
    \A s \in Sessions :
        (/\ stats[s].pc = "done" /\ stats[s].kind = "basic"
         /\ stats[s].result = "value" /\ ~stats[s].failed
         /\ stats[s].quiet)
        => /\ stats[s].today <= stats[s].total
           /\ stats[s].thisWeek <= stats[s].total
           /\ stats[s].dict - stats[s].remaining <= stats[s].total

\* A fetchUserStatsBasic call over an unchanged store with a known and an
\* unknown record has returned
QuietBasicStatsReturned ==
    /\ stats["s1"].pc = "done" /\ stats["s1"].kind = "basic"
    /\ stats["s1"].result = "value" /\ ~stats["s1"].failed /\ stats["s1"].quiet
    /\ stats["s1"].total = 2 /\ stats["s1"].today = 2
    /\ stats["s1"].remaining = Cardinality(dictionary) - 1


-----------------------------------------------------------------------------
(* Specification of the aggregator over a history: user u1 has reviewed     *)
(* some of the words at instants of the days 0..HistoryDays, it is the last *)
(* of these days, and session s1 computes its statistics, its breakdown and *)
(* its streak.                                                              *)

HistoryDays == 2

\* The instants of days 0..HistoryDays
HistoryTimes == 0..((HistoryDays + 1) * TicksPerDay - 1)

\* The store in which word w has the row h[w], or none
HistoryStore(h) ==
    {[user_id |-> "u1", word_id |-> w, status |-> h[w].status,
      last_reviewed_at |-> h[w].at, created_at |-> h[w].at] :
        w \in {x \in AllWords : h[x] # None}}

InitHistory ==
    /\ dictionary = AllWords
    /\ now \in {t \in HistoryTimes : DateOf(t) = HistoryDays}
    /\ \E h \in [AllWords -> {None} \cup [status : {"new", "known", "unknown"},
                                          at : HistoryTimes]] :
          /\ \A w \in AllWords : h[w] # None => h[w].at <= now
          /\ store = HistoryStore(h)
    /\ user = [s \in Sessions |-> "u1"]
    /\ calls = [s \in Sessions |-> IdleCall]
    /\ lastApplied = None
    /\ sel = [s \in Sessions |-> IdleSel]
    /\ stats = [s \in Sessions |-> IdleStats]
    /\ ctl = [s \in Sessions |-> IdleCtl]
    /\ loads = [s \in Sessions |-> <<>>]
    /\ dash = [s \in Sessions |-> IdleDash]

NextHistory ==
    \/ FetchLearningStreak("s1", user["s1"])
    \/ FetchProgressBreakdown("s1", user["s1"])
    \/ FetchUserStats("s1", user["s1"])
    \/ StoreServeStats("s1")

SpecHistory == InitHistory /\ [][NextHistory]_vars

\* The number of consecutive dates of the set that end with date d
RECURSIVE RunEndingAt(_, _)
RunEndingAt(dates, d) == IF d \notin dates THEN 0 ELSE 1 + RunEndingAt(dates, d - 1)

\* C18: the currentStreak of fetchLearningStreak is the number of consecutive
\* calendar days with a review in the run that ends today, or that ends
\* yesterday when there is no review today.
CurrentStreakIsRunToToday ==
    \A s \in Sessions :
        (stats[s].pc = "done" /\ stats[s].kind = "streak" /\ stats[s].result = "value")
        => stats[s].currentStreak =
              IF stats[s].todayAt \in stats[s].studyDates
              THEN RunEndingAt(stats[s].studyDates, stats[s].todayAt)
              ELSE RunEndingAt(stats[s].studyDates, stats[s].todayAt - 1)

\* C19: the longestStreak of fetchLearningStreak is the maximum length of a
\* run of consecutive calendar dates with a review inside the 30-day window,
\* whether or not the run ends today.
LongestStreakIsMaximumRun ==
    \A s \in Sessions :
        (stats[s].pc = "done" /\ stats[s].kind = "streak" /\ stats[s].result = "value")
        => /\ \A d \in stats[s].studyDates :
                 RunEndingAt(stats[s].studyDates, d) <= stats[s].longestStreak
           /\ \/ stats[s].longestStreak = 0 /\ stats[s].studyDates = {}
              \/ \E d \in stats[s].studyDates :
                    RunEndingAt(stats[s].studyDates, d) = stats[s].longestStreak

-----------------------------------------------------------------------------
\* Specification of the selector over a history: user u1 asks for words from
\* a store with records of several days that nobody writes

InitPriority ==
    /\ dictionary = AllWords
    /\ now = HistoryDays * TicksPerDay
    /\ \E h \in [AllWords -> {None} \cup [status : {"known", "unknown"},
                                          at : HistoryTimes]] :
          /\ \A w \in AllWords : h[w] # None => h[w].at <= now
          /\ store = HistoryStore(h)
    /\ user = [s \in Sessions |-> "u1"]
    /\ calls = [s \in Sessions |-> IdleCall]
    /\ lastApplied = None
    /\ sel = [s \in Sessions |-> IdleSel]
    /\ stats = [s \in Sessions |-> IdleStats]
    /\ ctl = [s \in Sessions |-> IdleCtl]
    /\ loads = [s \in Sessions |-> <<>>]
    /\ dash = [s \in Sessions |-> IdleDash]

NextPriority ==
    \/ FetchPrioritizedWord("s1", user["s1"])
    \/ StoreServeSelect("s1")

SpecPriority == InitPriority /\ [][NextPriority]_vars

\* C22: when fetchPrioritizedWord returns with every request answered and the
\* user has an entry that is not 'known', the returned word is such an entry
\* with the least last-reviewed timestamp, an entry without a record counting
\* as reviewed at the epoch.
TierOneLeastReviewedFirst ==
    \A s \in Sessions :
        (/\ sel[s].pc = "done" /\ sel[s].kind = "prioritized" /\ ~sel[s].failed
         /\ sel[s].hasTierOne)
        => sel[s].leastTierOne

\* C23: when fetchPrioritizedWord returns with every request answered and
\* every entry is 'known' for the user, the returned word is the 'known' entry
\* with the oldest last_reviewed_at.
AllKnownOldestFirst ==
    \A s \in Sessions :
        (/\ sel[s].pc = "done" /\ sel[s].kind = "prioritized" /\ ~sel[s].failed
         /\ sel[s].allKnown /\ dictionary # {})
        => sel[s].oldestKnown

-----------------------------------------------------------------------------
\* StatsDashboard

DashParts == {"stats", "breakdown", "streak"}

\* What the component renders: the spinner and the sign-in prompt come first,
\* then the skeleton while loading, then the error panel, then the figures
DashView(c, userId) ==
    IF ~c.mounted THEN "spinner"
    ELSE IF ~HasId(userId) THEN "signin"
    ELSE IF c.loading THEN "skeleton"
    ELSE IF c.error # "" THEN "error"
    ELSE "main"

\* loadStats to its await: nothing without a user id, otherwise the three
\* requests of Promise.all are started together
LoadStats(c, userId, t) ==
    IF ~HasId(userId) THEN c
    ELSE [c EXCEPT !.loading = TRUE, !.error = "", !.pending = TRUE,
                   !.parts = [k \in DashParts |->
                                 CASE k = "stats"     -> StartUserStats(userId)
                                   [] k = "breakdown" -> StartBreakdown(userId)
                                   [] k = "streak"    -> StartStreak(userId, t)]]

\* The mount effect: isLoaded && user?.id
DashMount(s) ==
    /\ ~dash[s].mounted
    /\ dash' = [dash EXCEPT ![s] =
                   LoadStats([dash[s] EXCEPT !.mounted = TRUE], user[s], now)]
    /\ UNCHANGED <<dictionary, store, now, user, calls, lastApplied, sel, stats, ctl, loads>>

\* "Refresh Stats" of the main view and "Try Again" of the error panel, both
\* onClick={loadStats}
DashClickReload(s) ==
    /\ DashView(dash[s], user[s]) \in {"main", "error"}
    /\ dash' = [dash EXCEPT ![s] = LoadStats(dash[s], user[s], now)]
    /\ UNCHANGED <<dictionary, store, now, user, calls, lastApplied, sel, stats, ctl, loads>>

\* The store answers one request of one of the three invocations
DashServe(s) ==
    /\ dash[s].pending
    /\ \E k \in DashParts :
          \E q \in StatsStep(dash[s].parts[k], store, dictionary, user[s], now) :
              dash' = [dash EXCEPT ![s].parts[k] = q]
    /\ UNCHANGED <<dictionary, store, now, user, calls, lastApplied, sel, stats, ctl, loads>>

ZeroStats == [total |-> 0, today |-> 0, thisWeek |-> 0, remaining |-> 0]

ZeroBreakdown == [new |-> 0, known |-> 0, unknown |-> 0]

ZeroStreak == [currentStreak |-> 0, longestStreak |-> 0, lastStudyDate |-> -1]

\* Promise.all has resolved (no invocation rejects: each catches and returns
\* null): a null is replaced by zeros, then finally setLoading(false)
DashSettle(s) ==
    LET c == dash[s] IN
    /\ c.pending
    /\ \A k \in DashParts : c.parts[k].pc = "done"
    /\ dash' = [dash EXCEPT ![s] =
                   [c EXCEPT
                      !.pending = FALSE, !.loading = FALSE,
                      !.stats = IF c.parts["stats"].result = "value"
                                THEN [total     |-> c.parts["stats"].total,
                                      today     |-> c.parts["stats"].today,
                                      thisWeek  |-> c.parts["stats"].thisWeek,
                                      remaining |-> c.parts["stats"].remaining]
                                ELSE ZeroStats,
                      !.breakdown = IF c.parts["breakdown"].result = "value"
                                    THEN c.parts["breakdown"].breakdown
                                    ELSE ZeroBreakdown,
                      !.streak = IF c.parts["streak"].result = "value"
                                 THEN [currentStreak |-> c.parts["streak"].currentStreak,
                                       longestStreak |-> c.parts["streak"].longestStreak,
                                       lastStudyDate |-> c.parts["streak"].lastStudyDate]
                                 ELSE ZeroStreak]]
    /\ UNCHANGED <<dictionary, store, now, user, calls, lastApplied, sel, stats, ctl, loads>>

-----------------------------------------------------------------------------
\* Specification of the dashboard: a signed-in user or a guest opens it over a
\* store that nobody writes

InitDash ==
    /\ dictionary = AllWords
    /\ now = HistoryDays * TicksPerDay
    /\ \E h \in [AllWords -> {None} \cup [status : {"new", "known", "unknown"},
                                          at : {0, now}]] :
          store = HistoryStore(h)
    /\ \E u \in {NoId, "u1"} : user = [s \in Sessions |-> u]
    /\ calls = [s \in Sessions |-> IdleCall]
    /\ lastApplied = None
    /\ sel = [s \in Sessions |-> IdleSel]
    /\ stats = [s \in Sessions |-> IdleStats]
    /\ ctl = [s \in Sessions |-> IdleCtl]
    /\ loads = [s \in Sessions |-> <<>>]
    /\ dash = [s \in Sessions |-> IdleDash]

NextDash ==
    \/ DashMount("s1")
    \/ DashClickReload("s1")
    \/ DashServe("s1")
    \/ DashSettle("s1")

SpecDash == InitDash /\ [][NextDash]_vars

\* C17: of the values the dashboard shows after a load in which fetchUserStats
\* and fetchProgressBreakdown both returned a value, breakdown.new +
\* breakdown.known + breakdown.unknown equals total and each count is a
\* non-negative integer.
BreakdownSumsToTotal ==
    \A s \in Sessions :
        LET c == dash[s] IN
        (/\ DashView(c, user[s]) = "main"
         /\ c.parts["stats"].result = "value" /\ ~c.parts["stats"].failed
         /\ c.parts["breakdown"].result = "value")
        => /\ c.breakdown.new \in Nat /\ c.breakdown.known \in Nat
           /\ c.breakdown.unknown \in Nat
           /\ c.breakdown.new + c.breakdown.known + c.breakdown.unknown = c.stats.total

\* C21: when a store read of fetchUserStats, fetchProgressBreakdown or
\* fetchLearningStreak failed during a load, the dashboard that has finished
\* the load shows its error panel and not the figures.
FailedReadEndsInErrorPanel ==
    \A s \in Sessions :
        LET c == dash[s] IN
        (/\ c.mounted /\ HasId(user[s]) /\ ~c.pending /\ ~c.loading
         /\ \E k \in DashParts : c.parts[k].pc = "done" /\ c.parts[k].failed)
        => DashView(c, user[s]) = "error"

-----------------------------------------------------------------------------
\* Specification of two identities on one store: session s1 acts under u1 and
\* names either user in its calls; session s2 under u2 writes its own records

\* getAllUserProgress(userId): the possible results { data, success }
GetAllUserProgress(S, identity, userId) ==
    IF ~HasId(userId)
    THEN {[success |-> FALSE, data |-> {}]}
    ELSE {[success |-> FALSE, data |-> {}],
          [success |-> TRUE, data |-> RowsOfUser(S, identity, userId)]}

\* getWordProgress(userId, wordId): no row is a success without data
GetWordProgress(S, identity, userId, wordId) ==
    IF ~(HasId(userId) /\ HasId(wordId))
    THEN {[success |-> FALSE, data |-> {}]}
    ELSE {[success |-> FALSE, data |-> {}],
          [success |-> TRUE,
           data |-> {r \in RowsOfUser(S, identity, userId) : r.word_id = wordId}]}

InitRls ==
    /\ dictionary = {"w1", "w2"}
    /\ store = {}
    /\ now = 0
    /\ user = [s \in Sessions |-> IF s = "s1" THEN "u1" ELSE "u2"]
    /\ calls = [s \in Sessions |-> IdleCall]
    /\ lastApplied = None
    /\ sel = [s \in Sessions |-> IdleSel]
    /\ stats = [s \in Sessions |-> IdleStats]
    /\ ctl = [s \in Sessions |-> IdleCtl]
    /\ loads = [s \in Sessions |-> <<>>]
    /\ dash = [s \in Sessions |-> IdleDash]

NextRls ==
    \/ \E uid \in Users : UpdateWordStatus("s1", uid, "w1", "known")
    \/ \E st \in {"known", "unknown"} : ClientUpsert("s2", user["s2"], "w1", st)
    \/ StoreServeUpsert("s1")
    \/ \E uid \in Users : FetchProgressBreakdown("s1", uid)
    \/ \E uid \in Users : FetchLearningStreak("s1", uid)
    \/ StoreServeStats("s1")
    \/ \E uid \in Users : FetchPrioritizedWord("s1", uid)
    \/ StoreServeSelect("s1")

SpecRls == InitRls /\ [][NextRls]_vars

\* The records of S that belong to the identity
OwnRows(S, identity) == {r \in S : r.user_id = identity}

\* What the caller of a statistics function or of the selector receives and
\* what the invocation carries from one request to the next
StatsObserved(p) ==
    [pc |-> p.pc, kind |-> p.kind, userId |-> p.userId, result |-> p.result,
     total |-> p.total, today |-> p.today, thisWeek |-> p.thisWeek,
     remaining |-> p.remaining, dict |-> p.dict, breakdown |-> p.breakdown,
     currentStreak |-> p.currentStreak, longestStreak |-> p.longestStreak,
     lastStudyDate |-> p.lastStudyDate]

SelObserved(p) ==
    [pc |-> p.pc, kind |-> p.kind, userId |-> p.userId, known |-> p.known,
     offset |-> p.offset, word |-> p.word, ok |-> p.ok, err |-> p.err]

\* C20: under identity A every answer of the store to a statistics request, a
\* selector request or a progress read is the answer it would give if the
\* store held A's records only, whatever user the request names; a step of
\* the store for a write of A leaves the records of other users as they were,
\* and a write that names another user is rejected with the store unchanged.
OtherUsersRecordsIsolated ==
    /\ [](\A s \in Sessions :
            LET own == OwnRows(store, user[s]) IN
            /\ {StatsObserved(q) : q \in StatsStep(stats[s], store, dictionary, user[s], now)}
               = {StatsObserved(q) : q \in StatsStep(stats[s], own, dictionary, user[s], now)}
            /\ {SelObserved(q) : q \in SelectorStep(sel[s], store, dictionary, user[s])}
               = {SelObserved(q) : q \in SelectorStep(sel[s], own, dictionary, user[s])}
            /\ \A uid \in Users \cup {NoId} :
                  /\ GetAllUserProgress(store, user[s], uid)
                     = GetAllUserProgress(own, user[s], uid)
                  /\ \A w \in AllWords :
                        GetWordProgress(store, user[s], uid, w)
                        = GetWordProgress(own, user[s], uid, w))
    /\ [][\A s \in Sessions :
            StoreServeUpsert(s)
            => /\ store' \ OwnRows(store', user[s]) = store \ OwnRows(store, user[s])
               /\ calls[s].userId # user[s] => (store' = store /\ ~calls'[s].ok)]_vars

\* u2 holds a record; under u1 a write naming u2 has been rejected and a
\* statistics invocation naming u2 has returned a value
ForeignWriteRejectedAndReadAnswered ==
    /\ \E r \in store : r.user_id = "u2"
    /\ calls["s1"].pc = "done" /\ calls["s1"].userId = "u2" /\ ~calls["s1"].ok
    /\ calls["s1"].err = "Failed to update word status"
    /\ stats["s1"].pc = "done" /\ stats["s1"].userId = "u2"
    /\ stats["s1"].result = "value" /\ ~stats["s1"].failed
    /\ sel["s1"].pc = "done" /\ sel["s1"].userId = "u2" /\ sel["s1"].ok

-----------------------------------------------------------------------------
(* Specification of the recorder: two sessions call updateWordStatus with   *)
(* arbitrary arguments against a two-word dictionary.                       *)

\* Arguments the callers pass: the decisions on the dictionary's words, and
\* one case for each way a call can be refused (no user id, no word id, a
\* status that is no decision, another user's id, a word that does not exist).
ArgCases ==
    {<<"u1", w, st>> : w \in {"w1", "w2"}, st \in {"known", "unknown"}}
    \cup {<<NoId, "w1", "known">>, <<"u1", NoId, "known">>, <<"u1", "w1", "new">>,
          <<"u1", "w1", "bogus">>, <<"u2", "w1", "known">>, <<"u1", "w3", "known">>}

InitStore ==
    /\ dictionary = {"w1", "w2"}
    /\ store = {}
    /\ now = 0
    /\ user = [s \in Sessions |-> "u1"]
    /\ calls = [s \in Sessions |-> IdleCall]
    /\ lastApplied = None
    /\ sel = [s \in Sessions |-> IdleSel]
    /\ stats = [s \in Sessions |-> IdleStats]
    /\ ctl = [s \in Sessions |-> IdleCtl]
    /\ loads = [s \in Sessions |-> <<>>]
    /\ dash = [s \in Sessions |-> IdleDash]

NextStore ==
    \/ \E a \in ArgCases : UpdateWordStatus("s1", a[1], a[2], a[3])
    \/ MarkWordAsKnown("s2", user["s2"], "w1")
    \/ MarkWordAsUnknown("s2", user["s2"], "w1")
    \/ \E s \in Sessions : StoreServeUpsert(s)
    \/ \E st \in {"new", "bogus"} : ClientUpsert("s2", user["s2"], "w2", st)
    \/ Tick

SpecStore == InitStore /\ [][NextStore]_vars

-----------------------------------------------------------------------------
(* Properties of the recorder, checked under SpecStore *)

\* C1: for every user U and word W, after any sequence of updateWordStatus /
\* markWordAsKnown / markWordAsUnknown calls (also interleaved from two
\* sessions of U), the store holds at most one record with key (U, W).
AtMostOneRecordPerKey ==
    \A r1, r2 \in store :
        (r1.user_id = r2.user_id /\ r1.word_id = r2.word_id) => r1 = r2

\* Both sessions have recorded a decision on the same (U, W), issued at
\* different times, and the record is there.
TwoSessionsWroteSameKey ==
    /\ calls["s1"].pc = "done" /\ calls["s1"].ok
    /\ calls["s2"].pc = "done" /\ calls["s2"].ok
    /\ calls["s1"].userId = calls["s2"].userId
    /\ calls["s1"].wordId = calls["s2"].wordId
    /\ calls["s1"].ts # calls["s2"].ts
    /\ RowsOf(store, calls["s1"].userId, calls["s1"].wordId) # {}

\* The write of call c is the one the store applied last
AppliedLast(c) ==
    lastApplied = [user_id |-> c.userId, word_id |-> c.wordId,
                   status |-> c.status, ts |-> c.ts]

\* C5: updateWordStatus(U, W, 'known') called twice in succession, both
\* succeeding, leaves exactly one record for (U, W), with status 'known' and
\* last_reviewed_at equal to the timestamp of the second call.
SecondKnownCallLeavesOneRecord ==
    \A s \in Sessions :
        LET c == calls[s] IN
        (c.pc = "done" /\ c.ok /\ c.again /\ c.status = "known" /\ AppliedLast(c))
        => \E r \in store :
              /\ RowsOf(store, c.userId, c.wordId) = {r}
              /\ r.status = "known"
              /\ r.last_reviewed_at = c.ts

\* A session's second successful 'known' call on a record created earlier
SecondKnownCallDone ==
    \E s \in Sessions :
        LET c == calls[s] IN
        /\ c.pc = "done" /\ c.ok /\ c.again /\ c.status = "known" /\ AppliedLast(c)
        /\ \E r \in RowsOf(store, c.userId, c.wordId) : r.created_at < c.ts

\* C6: when two successful decisions with different values are recorded for
\* the same (U, W), in sequence or concurrently from two sessions, the store
\* holds exactly one record for (U, W), whose status is that of the write the
\* store applied last.
LastWriteWins ==
    lastApplied # None
    => \E r \in store :
          /\ RowsOf(store, lastApplied.user_id, lastApplied.word_id) = {r}
          /\ r.status = lastApplied.status

\* Two sessions recorded different decisions on the same (U, W); the one
\* issued earlier was applied last, and its status is the stored one.
ConcurrentDecisionsResolved ==
    /\ calls["s1"].pc = "done" /\ calls["s1"].ok
    /\ calls["s2"].pc = "done" /\ calls["s2"].ok
    /\ calls["s1"].userId = calls["s2"].userId
    /\ calls["s1"].wordId = calls["s2"].wordId
    /\ calls["s1"].status # calls["s2"].status
    /\ calls["s1"].ts < calls["s2"].ts
    /\ AppliedLast(calls["s1"])
    /\ \E r \in store : r.word_id = calls["s1"].wordId /\ r.status = calls["s1"].status

\* C8: every Progress Record has a status in {new, known, unknown}; no call
\* of updateWordStatus, whatever its arguments, stores another value.
StatusInDomain ==
    \A r \in store : r.status \in {"new", "known", "unknown"}

\* A call with a status outside the domain has returned and the store holds
\* records
BadStatusCallReturned ==
    /\ calls["s1"].pc = "done" /\ calls["s1"].status = "bogus" /\ ~calls["s1"].ok
    /\ \E r \in store : r.status = "new"
    /\ \E r \in store : r.status = "known"

\* C24: updateWordStatus called with an empty userId, an empty wordId or a
\* status other than 'known' and 'unknown' returns at once with success false
\* and an error, sends no request and leaves the store as it was.
InvalidCallFailsWithoutRequest ==
    [][\A a \in ArgCases :
          (/\ a[1] = NoId \/ a[2] = NoId \/ a[3] \notin {"known", "unknown"}
           /\ UpdateWordStatus("s1", a[1], a[2], a[3]))
          => /\ calls'["s1"].pc = "done" /\ ~calls'["s1"].ok
             /\ calls'["s1"].err # ""
             /\ store' = store]_vars

\* A call without a user id has returned its failure while the store holds a
\* record
EmptyUserCallReturned ==
    /\ calls["s1"].pc = "done" /\ calls["s1"].userId = NoId /\ ~calls["s1"].ok
    /\ calls["s1"].err = "User ID and Word ID are required"
    /\ store # {}

\* C25: a successful updateWordStatus(U, W, d) leaves one record keyed
\* (U, W) with status d and the call's last_reviewed_at, whose created_at is
\* that of the record that existed before, and leaves every record with
\* another key and the dictionary unchanged.
SuccessfulWriteChangesOnlyItsRecord ==
    [][\A s \in Sessions :
          (StoreServeUpsert(s) /\ calls'[s].ok)
          => LET c == calls[s] IN
             /\ store' \ RowsOf(store', c.userId, c.wordId)
                = store \ RowsOf(store, c.userId, c.wordId)
             /\ dictionary' = dictionary
             /\ \E r \in store' :
                   /\ RowsOf(store', c.userId, c.wordId) = {r}
                   /\ r.status = c.status /\ r.last_reviewed_at = c.ts
                   /\ \A o \in RowsOf(store, c.userId, c.wordId) :
                         r.created_at = o.created_at]_vars

\* A successful call has overwritten a record created at an earlier instant
\* while the store holds a record with another key
ExistingRecordOverwritten ==
    \E s \in Sessions :
        /\ calls[s].pc = "done" /\ calls[s].ok
        /\ \E r \in RowsOf(store, calls[s].userId, calls[s].wordId) :
              /\ r.last_reviewed_at = calls[s].ts /\ r.created_at < r.last_reviewed_at
              /\ r.status = calls[s].status
        /\ store \ RowsOf(store, calls[s].userId, calls[s].wordId) # {}

-----------------------------------------------------------------------------
(* Review controllers: FlashcardComponent and UserWordLearning.  ctl[s] is   *)
(* the React state of the component of session s, loads[s] the invocations   *)
(* of loadWord / loadPrioritizedWord that await the store, ctl[s].timers the *)
(* pending setTimeout callbacks, ctl[s].awaiting whether a status handler    *)
(* awaits its recorder call (calls[s]).                                      *)

\* Loads in flight at once: of FlashcardComponent, of UserWordLearning
MaxLoads == 2
MaxLearningLoads == 1
\* Pending setTimeout callbacks
MaxTimers == 2

Flashcard == "FlashcardComponent"
Learning == "UserWordLearning"

\* loadWord of FlashcardComponent, up to its await
LoadWord(c, L, userId) ==
    [c |-> [c EXCEPT !.isLoading = TRUE, !.error = "", !.isFlipped = FALSE],
     L |-> Append(L, [phase |-> "fetch",
                      p |-> IF HasId(userId)
                            THEN StartPrioritized(userId)
                            ELSE StartRandom([IdleSel EXCEPT !.kind = "random",
                                                             !.userId = userId])])]

\* loadPrioritizedWord of UserWordLearning, up to its await
LoadPrioritizedWord(c, L, userId) ==
    IF ~HasId(userId)
    THEN [c |-> c, L |-> L]
    ELSE [c |-> [c EXCEPT !.isLoading = TRUE, !.error = ""],
          L |-> Append(L, [phase |-> "fetch", p |-> StartPrioritized(userId)])]

Load(c, L, userId) ==
    IF c.comp = Flashcard THEN LoadWord(c, L, userId) ELSE LoadPrioritizedWord(c, L, userId)

\* The branch of the component's render
View(c, userId) ==
    IF ~c.mounted THEN "loading"
    ELSE IF c.comp = Flashcard THEN (IF c.error # "" THEN "error" ELSE "card")
    ELSE IF ~HasId(userId) THEN "auth"
    ELSE IF c.isLoading /\ c.currentWord = NoId THEN "spinner"
    ELSE IF c.error # "" /\ c.currentWord = NoId THEN "error"
    ELSE "main"

\* The error message is on the screen
ErrorShown(c, userId) == c.error # "" /\ View(c, userId) = "error"

\* enabled of useKeyboardHandler in FlashcardComponent
KeyboardEnabled(c) == c.comp = Flashcard /\ ~c.isLoading /\ c.currentWord # NoId

HasRoom(s) ==
    Len(loads[s]) < (IF ctl[s].comp = Flashcard THEN MaxLoads ELSE MaxLearningLoads)

\* useUser(): the user of the session once Clerk has loaded, none before
UserOf(s) == IF ctl[s].mounted THEN user[s] ELSE NoId

SetCtl(s, r) ==
    /\ ctl' = [ctl EXCEPT ![s] = r.c]
    /\ loads' = [loads EXCEPT ![s] = r.L]

HandleFlipDropsWord(c) ==
    IF c.isLoading \/ c.currentWord = NoId THEN c
    ELSE [c EXCEPT !.isFlipped = ~c.isFlipped, !.currentWord = NoId]

HandleFlip(c) ==
    IF c.isLoading \/ c.currentWord = NoId THEN c ELSE [c EXCEPT !.isFlipped = ~c.isFlipped]

\* handleStatusUpdate of FlashcardComponent: the onStatusUpdate callback of
\* the parent (absent on the home page, console.log in FlashcardDemo) and the
\* timer of autoAdvance
HandleStatusUpdate(c, userId, st) ==
    IF c.currentWord = NoId \/ ~HasId(userId) THEN c
    ELSE IF c.autoAdvance THEN [c EXCEPT !.timers = c.timers + 1]
    ELSE c

\* isLoaded becomes true and the mount effect runs
Mount(s) ==
    /\ ~ctl[s].mounted
    /\ HasRoom(s)
    /\ LET c == [ctl[s] EXCEPT !.mounted = TRUE] IN
       IF c.comp = Flashcard
       THEN IF c.initialWord = NoId
            THEN SetCtl(s, LoadWord(c, loads[s], user[s]))
            ELSE SetCtl(s, [c |-> c, L |-> loads[s]])
       ELSE IF HasId(user[s])
            THEN SetCtl(s, LoadPrioritizedWord(c, loads[s], user[s]))
            ELSE SetCtl(s, [c |-> c, L |-> loads[s]])
    /\ UNCHANGED <<dictionary, store, now, user, calls, lastApplied, sel, stats, dash>>

\* Space: onSpace = handleFlip
KeySpace(s) ==
    /\ KeyboardEnabled(ctl[s])
    /\ ctl' = [ctl EXCEPT ![s] = HandleFlip(ctl[s])]
    /\ UNCHANGED <<dictionary, store, now, user, calls, lastApplied, sel, stats, loads, dash>>

\* onArrowRight = handleNext = loadWord
OnArrowRight(c, L, userId) == LoadWord(c, L, userId)

\* onArrowLeft = console.log('Previous word (not implemented)')
OnArrowLeft(c, L, userId) == [c |-> c, L |-> L]

\* Right arrow
KeyArrowRight(s) ==
    /\ KeyboardEnabled(ctl[s])
    /\ HasRoom(s)
    /\ SetCtl(s, OnArrowRight(ctl[s], loads[s], UserOf(s)))
    /\ UNCHANGED <<dictionary, store, now, user, calls, lastApplied, sel, stats, dash>>

\* Left arrow
KeyArrowLeft(s) ==
    /\ KeyboardEnabled(ctl[s])
    /\ SetCtl(s, OnArrowLeft(ctl[s], loads[s], UserOf(s)))
    /\ UNCHANGED <<dictionary, store, now, user, calls, lastApplied, sel, stats, dash>>

\* A click on the card or on the flip button
ClickFlip(s) ==
    /\ ctl[s].comp = Flashcard /\ View(ctl[s], UserOf(s)) = "card"
    /\ ctl' = [ctl EXCEPT ![s] = HandleFlip(ctl[s])]
    /\ UNCHANGED <<dictionary, store, now, user, calls, lastApplied, sel, stats, loads, dash>>

\* The Next button: disabled = isLoading
ClickNext(s) ==
    /\ ctl[s].comp = Flashcard /\ View(ctl[s], UserOf(s)) = "card"
    /\ ~ctl[s].isLoading
    /\ HasRoom(s)
    /\ SetCtl(s, LoadWord(ctl[s], loads[s], UserOf(s)))
    /\ UNCHANGED <<dictionary, store, now, user, calls, lastApplied, sel, stats, dash>>

\* The Skip button of UserWordLearning: disabled = updating
ClickSkip(s) ==
    /\ ctl[s].comp = Learning /\ View(ctl[s], UserOf(s)) = "main"
    /\ ~ctl[s].updating
    /\ HasRoom(s)
    /\ SetCtl(s, LoadPrioritizedWord(ctl[s], loads[s], UserOf(s)))
    /\ UNCHANGED <<dictionary, store, now, user, calls, lastApplied, sel, stats, dash>>

\* The Try Again button of the error view
ClickTryAgain(s) ==
    /\ View(ctl[s], UserOf(s)) = "error"
    /\ HasRoom(s)
    /\ SetCtl(s, Load(ctl[s], loads[s], UserOf(s)))
    /\ UNCHANGED <<dictionary, store, now, user, calls, lastApplied, sel, stats, dash>>

\* markAsKnown / markAsUnknown of UserWordLearning, up to the await of the
\* recorder call: the new state of the component and of the call
MarkAs(c, call, userId, st, t) ==
    IF ~HasId(userId) \/ c.currentWord = NoId
    THEN [c |-> c, call |-> call]
    ELSE [c |-> [c EXCEPT !.updating = TRUE, !.error = "", !.awaiting = TRUE],
          call |-> StartCall(call, userId, c.currentWord, st, t)]

\* A status button.  FlashcardComponent renders Know / Don't Know for a
\* signed-in user with a word, disabled = isLoading || updating;
\* UserWordLearning renders I Know This / Need Practice in its main view,
\* disabled = updating || currentProgress === status.
ClickStatus(s, st) ==
    /\ ctl[s].timers < MaxTimers
    /\ IF ctl[s].comp = Flashcard
       THEN /\ View(ctl[s], UserOf(s)) = "card"
            /\ HasId(UserOf(s)) /\ ctl[s].currentWord # NoId
            /\ ~(ctl[s].isLoading \/ ctl[s].updating)
            /\ ctl' = [ctl EXCEPT ![s] = HandleStatusUpdate(ctl[s], UserOf(s), st)]
            /\ UNCHANGED calls
       ELSE /\ View(ctl[s], UserOf(s)) = "main"
            /\ ~(ctl[s].updating \/ ctl[s].currentProgress = st)
            /\ LET r == MarkAs(ctl[s], calls[s], UserOf(s), st, now) IN
               /\ ctl' = [ctl EXCEPT ![s] = r.c]
               /\ calls' = [calls EXCEPT ![s] = r.call]
    /\ UNCHANGED <<dictionary, store, now, user, lastApplied, sel, stats, loads, dash>>

ClickKnow(s) == ClickStatus(s, "known")

ClickDontKnow(s) == ClickStatus(s, "unknown")

\* The recorder call has returned to the awaiting handler of UserWordLearning
HandleWriteResult(s) ==
    /\ ctl[s].awaiting /\ calls[s].pc = "done"
    /\ ctl' = [ctl EXCEPT ![s] =
                  IF calls[s].ok
                  THEN [@ EXCEPT !.currentProgress = calls[s].status,
                                 !.timers = @ + 1,
                                 !.updating = FALSE, !.awaiting = FALSE]
                  ELSE [@ EXCEPT !.error = calls[s].err,
                                 !.updating = FALSE, !.awaiting = FALSE]]
    /\ UNCHANGED <<dictionary, store, now, user, calls, lastApplied, sel, stats, loads, dash>>

\* A setTimeout callback runs: loadWord / loadPrioritizedWord
TimerFires(s) ==
    /\ ctl[s].timers > 0
    /\ HasRoom(s)
    /\ SetCtl(s, Load([ctl[s] EXCEPT !.timers = @ - 1], loads[s], UserOf(s)))
    /\ UNCHANGED <<dictionary, store, now, user, calls, lastApplied, sel, stats, dash>>

\* The outcomes of getWordProgress as loadPrioritizedWord reads them: the
\* status of the row, or 'new' without a row or on a failure
ProgressOutcomes(S, identity, userId, wordId) ==
    {r.status : r \in {x \in Visible(S, identity) :
                          x.user_id = userId /\ x.word_id = wordId}} \cup {"new"}

\* The fetch of a load has returned
AfterFetch(c, l, q) ==
    IF c.comp = Flashcard
    THEN IF q.ok
         THEN [c |-> [c EXCEPT !.currentWord = q.word, !.isFlipped = FALSE,
                               !.isLoading = FALSE],
               l |-> <<>>]
         ELSE [c |-> [c EXCEPT !.error = q.err, !.currentWord = NoId,
                               !.isFlipped = FALSE, !.isLoading = FALSE],
               l |-> <<>>]
    ELSE IF q.ok
         THEN [c |-> [c EXCEPT !.currentWord = q.word],
               l |-> <<[phase |-> "progress", p |-> q]>>]
         ELSE [c |-> [c EXCEPT !.error = q.err, !.isLoading = FALSE],
               l |-> <<>>]

\* The store answers the pending request of the i-th load of session s
StoreServeLoad(s) ==
    /\ \E i \in 1..Len(loads[s]) :
          LET l == loads[s][i]
              before == SubSeq(loads[s], 1, i - 1)
              after == SubSeq(loads[s], i + 1, Len(loads[s]))
          IN
          IF l.phase = "fetch"
          THEN \E q \in SelectorStep(l.p, store, dictionary, user[s]) :
                  IF q.pc # "done"
                  THEN /\ loads' = [loads EXCEPT ![s] = before \o <<[l EXCEPT !.p = q]>> \o after]
                       /\ UNCHANGED ctl
                  ELSE LET r == AfterFetch(ctl[s], l, q) IN
                       /\ loads' = [loads EXCEPT ![s] = before \o r.l \o after]
                       /\ ctl' = [ctl EXCEPT ![s] = r.c]
          ELSE \E st \in ProgressOutcomes(store, user[s], l.p.userId, l.p.word) :
                  /\ loads' = [loads EXCEPT ![s] = before \o after]
                  /\ ctl' = [ctl EXCEPT ![s] = [@ EXCEPT !.currentProgress = st,
                                                        !.isLoading = FALSE]]
    /\ UNCHANGED <<dictionary, store, now, user, calls, lastApplied, sel, stats, dash>>

-----------------------------------------------------------------------------
(* Specification of the application: one session, a guest or user u1, with  *)
(* FlashcardComponent (home page: no initial word, autoAdvance; demo page:  *)
(* initial word, autoAdvance as its checkbox says) or UserWordLearning.      *)

InitCtl ==
    {[IdleCtl EXCEPT !.comp = Flashcard]}
    \cup {[IdleCtl EXCEPT !.comp = Flashcard, !.autoAdvance = a,
                           !.initialWord = "w1", !.currentWord = "w1"] : a \in BOOLEAN}
    \cup {[IdleCtl EXCEPT !.comp = Learning]}

Init ==
    /\ dictionary = {"w1", "w2"}
    /\ store = {}
    /\ now = 0
    /\ \E u \in {NoId, "u1"} : user = [s \in Sessions |-> u]
    /\ calls = [s \in Sessions |-> IdleCall]
    /\ lastApplied = None
    /\ sel = [s \in Sessions |-> IdleSel]
    /\ stats = [s \in Sessions |-> IdleStats]
    /\ \E c \in InitCtl : ctl = [s \in Sessions |-> IF s = "s1" THEN c ELSE IdleCtl]
    /\ loads = [s \in Sessions |-> <<>>]
    /\ dash = [s \in Sessions |-> IdleDash]

Next ==
    \/ Mount("s1")
    \/ KeySpace("s1")
    \/ KeyArrowRight("s1")
    \/ KeyArrowLeft("s1")
    \/ ClickFlip("s1")
    \/ ClickNext("s1")
    \/ ClickSkip("s1")
    \/ ClickTryAgain("s1")
    \/ ClickKnow("s1")
    \/ ClickDontKnow("s1")
    \/ HandleWriteResult("s1")
    \/ TimerFires("s1")
    \/ StoreServeLoad("s1")
    \/ StoreServeUpsert("s1")

Spec == Init /\ [][Next]_vars

\* C2: a session with no authenticated identity never issues an upsert
\* request, whatever inputs its controller receives: its recorder is never
\* called and the store receives no row.
GuestNeverUpserts ==
    \A s \in Sessions :
        user[s] = NoId => (calls[s] = IdleCall /\ store = {} /\ lastApplied = None)

\* A guest has loaded a word in FlashcardComponent and revealed it
GuestRevealedWord ==
    /\ user["s1"] = NoId
    /\ ctl["s1"].mounted /\ ctl["s1"].comp = Flashcard
    /\ ctl["s1"].currentWord # NoId /\ ctl["s1"].isFlipped
    /\ loads["s1"] = <<>>

\* The inputs that mark the displayed word: Right arrow or the Know button
\* for known, Left arrow or the Don't Know button for unknown
MarkInput(s, st) ==
    IF st = "known"
    THEN KeyArrowRight(s) \/ ClickKnow(s)
    ELSE KeyArrowLeft(s) \/ ClickDontKnow(s)

\* C9: every mark input of an authenticated user on a displayed word W issues
\* the upsert for (U, W, status), before any next word is loaded.
MarkInputIssuesUpsert ==
    [][\A st \in {"known", "unknown"} :
          (MarkInput("s1", st) /\ UserOf("s1") # NoId /\ ctl["s1"].currentWord # NoId)
          => /\ calls'["s1"].pc = "sent"
             /\ calls'["s1"].userId = UserOf("s1")
             /\ calls'["s1"].wordId = ctl["s1"].currentWord
             /\ calls'["s1"].status = st]_vars

\* C10: when the recorder call for word W returns a failure, the controller
\* sets its error, its current word is still W, its revealed flag is
\* unchanged, and it starts no fetch.
WriteFailureKeepsWord ==
    [][(HandleWriteResult("s1") /\ ~calls["s1"].ok)
       => /\ ctl'["s1"].error # ""
          /\ ctl'["s1"].currentWord = calls["s1"].wordId
          /\ ctl'["s1"].isFlipped = ctl["s1"].isFlipped
          /\ loads' = loads
          /\ ctl'["s1"].timers = ctl["s1"].timers]_vars

\* A decision write of session s is outstanding: its request is at the store
WriteOutstanding(s) == calls[s].pc = "sent"

\* A word fetch is issued in this step: a load joins those in flight
FetchIssued(s) == Len(loads'[s]) > Len(loads[s])

\* C11: no word fetch is issued while a decision write is outstanding, for
\* every interleaving of inputs, store responses and auto-advance timers.
NoFetchDuringWrite ==
    [][WriteOutstanding("s1") => ~FetchIssued("s1")]_vars

\* C12: in every reachable state of a session at most one word fetch and at
\* most one decision write are outstanding; no input and no timer starts a
\* second concurrent fetch.
AtMostOneFetchOutstanding ==
    \A s \in Sessions : Len(loads[s]) <= 1

\* The Error state of a controller: error set, no word, not loading
ErrorState(c) == c.error # "" /\ c.currentWord = NoId /\ ~c.isLoading

\* This step is the return of a failed word fetch to the controller of s
FetchFails(s) ==
    \E i \in 1..Len(loads[s]) :
        /\ loads[s][i].phase = "fetch"
        /\ \E q \in SelectorStep(loads[s][i].p, store, dictionary, user[s]) :
              /\ q.pc = "done" /\ ~q.ok
              /\ ctl' = [ctl EXCEPT ![s] = AfterFetch(ctl[s], loads[s][i], q).c]
              /\ loads' = [loads EXCEPT ![s] =
                              SubSeq(loads[s], 1, i - 1) \o SubSeq(loads[s], i + 1, Len(loads[s]))]

\* C13: a failed word fetch leaves the controller in the Error state, and in
\* the Error state only the user's retry issues a word fetch.
FetchFailureEndsInError ==
    [][/\ FetchFails("s1") => ErrorState(ctl'["s1"])
       /\ (ErrorState(ctl["s1"]) /\ FetchIssued("s1")) => ClickTryAgain("s1")]_vars

\* This step is the successful return of a word fetch, with word w, to the
\* FlashcardComponent of s
FetchSucceeds(s, w) ==
    /\ ctl[s].comp = Flashcard
    /\ \E i \in 1..Len(loads[s]) :
          /\ loads[s][i].phase = "fetch"
          /\ \E q \in SelectorStep(loads[s][i].p, store, dictionary, user[s]) :
                /\ q.pc = "done" /\ q.ok /\ q.word = w
                /\ ctl' = [ctl EXCEPT ![s] = AfterFetch(ctl[s], loads[s][i], q).c]
                /\ loads' = [loads EXCEPT ![s] =
                                SubSeq(loads[s], 1, i - 1)
                                \o SubSeq(loads[s], i + 1, Len(loads[s]))]

\* C26: when a word fetch of a mounted FlashcardComponent returns
\* successfully, the component shows its card with the fetched word and the revealed flag
\* false.
SuccessfulFetchShowsUnrevealedWord ==
    [][\A w \in AllWords :
          (ctl["s1"].mounted /\ FetchSucceeds("s1", w))
          => /\ View(ctl'["s1"], user["s1"]) = "card"
             /\ ctl'["s1"].currentWord = w
             /\ ~ctl'["s1"].isFlipped]_vars

\* The reveal input: Space, or a click on the card or the flip button
RevealInput(s) == KeySpace(s) \/ ClickFlip(s)

\* The skip/next input: the Right arrow and the Next button of
\* FlashcardComponent, the Skip button of UserWordLearning
SkipInput(s) == KeyArrowRight(s) \/ ClickNext(s) \/ ClickSkip(s)

\* C27: a reveal input and a skip/next input start no recorder call and leave
\* the store unchanged; a reveal input starts no word fetch either and leaves
\* the current word unchanged.
RevealAndSkipWriteNothing ==
    [][\A s \in Sessions :
          /\ (RevealInput(s) \/ SkipInput(s))
             => (calls' = calls /\ store' = store /\ lastApplied' = lastApplied)
          /\ RevealInput(s)
             => (loads' = loads /\ ctl'[s].currentWord = ctl[s].currentWord)]_vars

\* A signed-in user has skipped to another word and revealed it
SkippedWordRevealed ==
    /\ user["s1"] = "u1" /\ ctl["s1"].mounted /\ ctl["s1"].comp = Flashcard
    /\ ctl["s1"].initialWord = "w1" /\ ctl["s1"].currentWord = "w2"
    /\ ctl["s1"].isFlipped /\ calls["s1"] = IdleCall /\ store = {}

\* C28: for a guest whose card is revealed in FlashcardComponent, the handler
\* of the Left arrow and the handler of the Right arrow each start a fetch of
\* a random word.
GuestArrowsFetchNextWord ==
    \A s \in Sessions :
        (/\ ctl[s].mounted /\ user[s] = NoId /\ ctl[s].comp = Flashcard
         /\ KeyboardEnabled(ctl[s]) /\ ctl[s].isFlipped)
        => \A r \in {OnArrowLeft(ctl[s], loads[s], UserOf(s)),
                     OnArrowRight(ctl[s], loads[s], UserOf(s))} :
              /\ Len(r.L) = Len(loads[s]) + 1
              /\ r.L[Len(r.L)].phase = "fetch" /\ r.L[Len(r.L)].p.kind = "random"
              /\ r.c.isLoading

-----------------------------------------------------------------------------
\* Specification of a study session: user u1 answers the cards of
\* UserWordLearning over a store that never fails

\* The store answers a request of a load without an error, and the progress
\* read returns the row's status
StudyServeLoad(s) ==
    /\ loads[s] # <<>>
    /\ StoreServeLoad(s)
    /\ \A i \in 1..Len(loads'[s]) : ~loads'[s][i].p.failed
    /\ ctl'[s].error = ""
    /\ loads[s][1].phase = "progress"
       => ctl'[s].currentProgress = StatusOf(store, user[s], loads[s][1].p.word)

\* The store applies the upsert and the response reaches the caller
StudyServeUpsert(s) == StoreServeUpsert(s) /\ calls'[s].ok

\* The fetch of the load returns word w and the component displays it
DisplayStep(s, w) ==
    /\ StudyServeLoad(s)
    /\ loads[s][1].phase = "fetch"
    /\ loads'[s] # <<>> /\ loads'[s][1].phase = "progress"
    /\ ctl'[s].currentWord = w

InitStudy ==
    /\ dictionary = {"w1", "w2"}
    /\ store = {}
    /\ now = 0
    /\ user = [s \in Sessions |-> "u1"]
    /\ calls = [s \in Sessions |-> IdleCall]
    /\ lastApplied = None
    /\ sel = [s \in Sessions |-> IdleSel]
    /\ stats = [s \in Sessions |-> IdleStats]
    /\ ctl = [s \in Sessions |->
                 IF s = "s1" THEN [IdleCtl EXCEPT !.comp = Learning] ELSE IdleCtl]
    /\ loads = [s \in Sessions |-> <<>>]
    /\ dash = [s \in Sessions |-> IdleDash]

NextStudy ==
    \/ Mount("s1")
    \/ ClickKnow("s1")
    \/ ClickDontKnow("s1")
    \/ HandleWriteResult("s1")
    \/ TimerFires("s1")
    \/ StudyServeLoad("s1")
    \/ StudyServeUpsert("s1")

\* The component, its timers and the store make progress, the user answers
\* whenever a status button is enabled, and a word that the store can return
\* again and again is returned
StudyFairness ==
    /\ WF_vars(Mount("s1"))
    /\ WF_vars(ClickKnow("s1") \/ ClickDontKnow("s1"))
    /\ WF_vars(HandleWriteResult("s1"))
    /\ WF_vars(TimerFires("s1"))
    /\ WF_vars(StudyServeLoad("s1"))
    /\ WF_vars(StudyServeUpsert("s1"))
    /\ \A w \in AllWords : SF_vars(DisplayStep("s1", w))

SpecStudy == InitStudy /\ [][NextStudy]_vars /\ StudyFairness

\* C29: for an authenticated user who answers every displayed card, with a
\* store that never fails and fair random choices, every vocabulary entry
\* without a Progress Record is eventually displayed.
NeverReviewedEventuallyDisplayed ==
    \A w \in AllWords :
        (w \in dictionary /\ RowsOf(store, "u1", w) = {})
        ~> (ctl["s1"].currentWord = w)

====
